---- MODULE Spec2Model ----
(***************************************************************************)
(* A model of the MQTT v5 broker core of robustmq: the packet handlers of  *)
(* mqtt-broker/src/handler/mqtt5.rs (Mqtt5Service) and the exclusive        *)
(* subscription push threads of mqtt-broker/src/subscribe/exclusive_sub.rs  *)
(* (SubscribeExclusive).  The metadata cache, the heartbeat manager, the    *)
(* subscribe manager and the message storage are used by these files but    *)
(* defined elsewhere; they are modelled from their documented contract.     *)
(***************************************************************************)
EXTENDS Integers, Sequences, FiniteSets, TLC

\* ------------------------------------------------------------------ bounds
\* Records one shard may hold (publishes are disabled once it is reached).
MaxLog == 2
\* Storage calls that may fail over one run.
MaxFaults == 1

\* ------------------------------------------------------------ input sets
Conns == {1, 2}
Clients == {"a", "b"}
\* Clients that issue SUBSCRIBE.
Subscribers == {"a"}
TopicNames == {"t"}
QoS == {0, 1, 2}
\* Inputs of the retain flag of PUBLISH and of the subscription's
\* retain-as-published flag.
RetainInputs == {FALSE}
PreserveRetainInputs == {FALSE}

\* ------------------------------------------------------------------ state
VARIABLES
    connect_id_info,    \* MetadataCache: connection_id -> client_id
    client_id_info,     \* MetadataCache: client_id -> connection_id
    session_info,       \* MetadataCache: client_id -> Session
    topic_info,         \* MetadataCache: topic_name -> Topic (its topic_id)
    heartbeat,          \* HeartbeatManager: connection_id -> ConnectionLiveTime
    exclusive_subscribe,\* SubscribeManager: client_id -> Subscriber
    push_thread,        \* SubscribeExclusive.push_thread: client_id -> stop channel
    task,               \* the spawned push loops: client_id -> loop state
    topic_store,        \* storage: the topic names persisted by save_topic
    shard,              \* storage: topic_id -> sequence of records
    group_offset,       \* storage: <<topic_id, group_id>> -> committed offset
    lastwill,           \* storage: client_id with a stored last will
    retain_message,     \* storage: topic_id -> the retained Message of the topic
    faults,             \* storage failures so far
    response,           \* the packet the last handler call returned
    sends,              \* history: the PUBLISH packets the push loops emitted
    commits,            \* history: the offsets passed to commit_group_offset
    acked,              \* history: offsets whose PUBACK / PUBCOMP the broker received
    since_disconnect,   \* history: client_id -> supervisor ticks since its DISCONNECT
    retain_out,         \* history: the retained PUBLISH packets the last SUBSCRIBE pushed
    journal_call,       \* placement center: call id -> the journal RPC in progress
    request,            \* history: the CONNECT, PUBLISH or PINGREQ handled by the last step
    publishing          \* connection_id -> the publish() call suspended at an await

cacheVars == <<connect_id_info, client_id_info, session_info, topic_info>>
subVars == <<exclusive_subscribe, push_thread, task>>
storeVars == <<topic_store, shard, group_offset, lastwill, retain_message>>
histVars == <<sends, commits, acked, since_disconnect, retain_out>>
journalVars == <<journal_call>>
callVars == <<publishing>>
vars == <<cacheVars, heartbeat, subVars, storeVars, faults, response, histVars, journalVars,
          request, callVars>>

\* ------------------------------------------------------- concurrent maps
\* DashMap::insert / DashMap::remove on a map modelled as a function.
MapInsert(m, k, v) == [x \in DOMAIN m \cup {k} |-> IF x = k THEN v ELSE m[x]]
MapRemove(m, k) == [x \in DOMAIN m \ {k} |-> m[x]]
EmptyMap == [x \in {} |-> TRUE]

\* ---------------------------------------------------------------- packets
\* MQTTAckBuild::distinct(reason, reason_string)
Distinct(reason, has_reason_string) ==
    [type |-> "Disconnect", reason |-> reason, reason_string |-> has_reason_string]
\* conn_ack: the id is carried only when the broker generated it.
ConnAck == [type |-> "ConnAck"]
PingResp == [type |-> "PingResp"]
SubAck == [type |-> "SubAck"]
UnsubAck == [type |-> "UnsubAck"]
PubAck(user_properties) == [type |-> "PubAck", user_properties |-> user_properties]
PubRec == [type |-> "PubRec"]
\* publish() returns None for QoS 0: nothing is sent back.
NoPacket == [type |-> "None"]

\* The call a step handled, kept as history for the properties of CONNECT,
\* PUBLISH and PINGREQ; NoRequest after any other step.
NoRequest == [type |-> "None"]
ConnectRequest(connect_id, login) ==
    [type |-> "Connect", connect_id |-> connect_id, login |-> login]
PublishRequest(connect_id) == [type |-> "Publish", connect_id |-> connect_id]
PingRequest(connect_id) == [type |-> "Ping", connect_id |-> connect_id]

\* ---------------------------------------------------------- metadata cache
\* MetadataCache::set_client_id: both directions of the binding.
SetClientId_conn(connect_id, client_id) == MapInsert(connect_id_info, connect_id, client_id)
SetClientId_client(connect_id, client_id) == MapInsert(client_id_info, client_id, connect_id)
\* MetadataCache::remove_connect_id: both directions of the connection's binding.
RemoveConnectId_conn(connect_id) == MapRemove(connect_id_info, connect_id)
RemoveConnectId_client(connect_id) ==
    IF connect_id \in DOMAIN connect_id_info
    THEN MapRemove(client_id_info, connect_id_info[connect_id])
    ELSE client_id_info
\* MetadataCache::get_connect_id
HasConnectId(client_id) == client_id \in DOMAIN client_id_info
GetConnectId(client_id) == client_id_info[client_id]

\* --------------------------------------------------------------- CONNECT
\* login: what authentication_login returned: Ok(true), Ok(false) or Err.
LoginResults == {"ok", "reject", "error"}

\* A rejection that drops the error of the login plugin: not what connect
\* returns on Err(e).
LoginDistinct_NoString(login) == Distinct("NotAuthorized", FALSE)
\* The packet connect returns when authentication_login did not admit the
\* client: distinct(NotAuthorized, None) on Ok(false),
\* distinct(NotAuthorized, Some(e.to_string())) on Err(e).
LoginDistinct(login) == Distinct("NotAuthorized", login = "error")

ConnectRejected(connect_id, login) ==
    /\ login # "ok"
    /\ response' = LoginDistinct(login)
    /\ request' = ConnectRequest(connect_id, login)
    /\ UNCHANGED <<callVars, journalVars, cacheVars, heartbeat, subVars, storeVars, faults, histVars>>

\* save_connect_session or save_lastwill returned Err; nothing is cached.
\* A connect that caches the session before it saves the last will: not the
\* order of connect.
ConnectStorageError_AfterCache(connect_id, client_id, has_last_will, failed) ==
    /\ faults < MaxFaults
    /\ failed \in {"save_connect_session"} \cup (IF has_last_will THEN {"save_lastwill"} ELSE {})
    /\ faults' = faults + 1
    /\ session_info' = IF failed = "save_lastwill"
                       THEN MapInsert(session_info, client_id, [has_last_will |-> has_last_will])
                       ELSE session_info
    /\ response' = IF failed = "save_connect_session"
                   THEN Distinct("AdministrativeAction", TRUE)
                   ELSE Distinct("UnspecifiedError", TRUE)
    /\ request' = ConnectRequest(connect_id, "ok")
    /\ UNCHANGED <<callVars, journalVars, connect_id_info, client_id_info, topic_info, heartbeat, subVars,
                   storeVars, histVars>>
ConnectStorageError(connect_id, client_id, has_last_will, failed) ==
    /\ faults < MaxFaults
    /\ failed \in {"save_connect_session"} \cup (IF has_last_will THEN {"save_lastwill"} ELSE {})
    /\ faults' = faults + 1
    /\ response' = IF failed = "save_connect_session"
                   THEN Distinct("AdministrativeAction", TRUE)
                   ELSE Distinct("UnspecifiedError", TRUE)
    /\ request' = ConnectRequest(connect_id, "ok")
    /\ UNCHANGED <<callVars, journalVars, cacheVars, heartbeat, subVars, storeVars, histVars>>

ConnectOk(connect_id, client_id, has_last_will) ==
    /\ lastwill' = IF has_last_will THEN lastwill \cup {client_id} ELSE lastwill
    /\ session_info' = MapInsert(session_info, client_id, [has_last_will |-> has_last_will])
    /\ connect_id_info' = SetClientId_conn(connect_id, client_id)
    /\ client_id_info' = SetClientId_client(connect_id, client_id)
    /\ heartbeat' = MapInsert(heartbeat, connect_id, [keep_live |-> "session"])
    /\ response' = ConnAck
    /\ since_disconnect' = MapRemove(since_disconnect, client_id)
    /\ request' = ConnectRequest(connect_id, "ok")
    /\ UNCHANGED <<callVars, journalVars, topic_info, subVars, topic_store, shard, group_offset, retain_message,
                   faults, sends, commits, acked, retain_out>>

Connect(connect_id, client_id, has_last_will, login) ==
    \/ ConnectRejected(connect_id, login)
    \/ /\ login = "ok"
       /\ \E failed \in {"save_connect_session", "save_lastwill"}:
            ConnectStorageError(connect_id, client_id, has_last_will, failed)
    \/ /\ login = "ok"
       /\ ConnectOk(connect_id, client_id, has_last_will)

\* ------------------------------------------------------------ DISCONNECT
\* SubscribeManager::remove_connect_subscribe: the descriptors of the connection.
RemoveConnectSubscribe(connect_id) ==
    [k \in {x \in DOMAIN exclusive_subscribe:
              exclusive_subscribe[x].connect_id # connect_id}
       |-> exclusive_subscribe[k]]

Disconnect(connect_id) ==
    /\ connect_id_info' = RemoveConnectId_conn(connect_id)
    /\ client_id_info' = RemoveConnectId_client(connect_id)
    /\ heartbeat' = MapRemove(heartbeat, connect_id)
    /\ exclusive_subscribe' = RemoveConnectSubscribe(connect_id)
    /\ response' = Distinct("NormalDisconnection", FALSE)
    /\ since_disconnect' =
         IF connect_id \in DOMAIN connect_id_info
         THEN MapInsert(since_disconnect, connect_id_info[connect_id], 0)
         ELSE since_disconnect
    /\ request' = NoRequest
    /\ UNCHANGED <<callVars, journalVars, session_info, topic_info, push_thread, task, storeVars, faults,
                   sends, commits, acked, retain_out>>

\* ---------------------------------------------------------------- PINGREQ
\* A ping that reports the heartbeat before the lookups: not what ping does.
Ping_ReportFirst(connect_id) ==
    /\ heartbeat' = MapInsert(heartbeat, connect_id, [keep_live |-> "session"])
    /\ response' = IF /\ connect_id \in DOMAIN connect_id_info
                      /\ connect_id_info[connect_id] \in DOMAIN session_info
                   THEN PingResp ELSE Distinct("UseAnotherServer", FALSE)
    /\ request' = PingRequest(connect_id)
    /\ UNCHANGED <<callVars, journalVars, cacheVars, subVars, storeVars, faults, histVars>>
Ping(connect_id) ==
    /\ IF /\ connect_id \in DOMAIN connect_id_info
          /\ connect_id_info[connect_id] \in DOMAIN session_info
       THEN /\ heartbeat' = MapInsert(heartbeat, connect_id, [keep_live |-> "session"])
            /\ response' = PingResp
       ELSE /\ heartbeat' = heartbeat
            /\ response' = Distinct("UseAnotherServer", FALSE)
    /\ request' = PingRequest(connect_id)
    /\ UNCHANGED <<callVars, journalVars, cacheVars, subVars, storeVars, faults, histVars>>

\* ---------------------------------------------------------------- storage
\* Topic::new: the topic_id of a topic; one topic is created per name.
TopicId(topic_name) == <<"topic", topic_name>>
\* The consumer group of an exclusive subscription.
GroupId(client_id) == <<"system_sub_", client_id>>
Max(x, y) == IF x >= y THEN x ELSE y
Min(x, y) == IF x <= y THEN x ELSE y

\* The committed offset of a group (0: nothing committed yet; offsets start at 1).
Committed(topic_id, group_id) ==
    IF <<topic_id, group_id>> \in DOMAIN group_offset
    THEN group_offset[<<topic_id, group_id>>]
    ELSE 0
\* MessageStorage::commit_group_offset: older offsets are coalesced.
CommitGroupOffset(topic_id, group_id, offset) ==
    MapInsert(group_offset, <<topic_id, group_id>>,
              Max(Committed(topic_id, group_id), offset))

\* Message::build_record(publish, publish_properties): the record is built from
\* the packet alone; rec_client is the client_id the packet resolves to.
\* origin (the publishing client) is history, not read by the program.
BuildRecord(publish, origin) ==
    [client_id |-> publish.rec_client, qos |-> publish.qos, retain |-> publish.retain,
     payload |-> publish.payload, decodable |-> TRUE, origin |-> origin]
\* A record of the shard that Message::decode_record rejects.
ForeignRecord ==
    [client_id |-> "", qos |-> 0, retain |-> FALSE, payload |-> "", decodable |-> FALSE,
     origin |-> ""]

\* ---------------------------------------------------------------- PUBLISH
Resolved(connect_id) ==
    /\ connect_id \in DOMAIN connect_id_info
    /\ connect_id_info[connect_id] \in DOMAIN session_info

\* A lookup made only after the topic has been cached: not the order of
\* publish.
PublishNotFound_AfterTopic(connect_id) ==
    /\ ~Resolved(connect_id)
    /\ \E topic_name \in TopicNames:
         topic_info' = MapInsert(topic_info, topic_name, TopicId(topic_name))
    /\ response' = Distinct("UnspecifiedError", TRUE)
    /\ request' = PublishRequest(connect_id)
    /\ UNCHANGED <<callVars, journalVars, connect_id_info, client_id_info, session_info, heartbeat,
                   subVars, storeVars, faults, histVars>>
\* connect_id_info has no entry for the connection, or session_info none for
\* its client: publish returns before it looks the topic up.
PublishNotFound(connect_id) ==
    /\ ~Resolved(connect_id)
    /\ response' = Distinct("UnspecifiedError", TRUE)
    /\ request' = PublishRequest(connect_id)
    /\ UNCHANGED <<callVars, journalVars, cacheVars, heartbeat, subVars, storeVars, faults, histVars>>

\* The durable steps publish() runs for this packet, in order.
PublishSteps(publish) ==
    (IF publish.topic \in DOMAIN topic_info THEN <<>> ELSE <<"save_topic", "create_shard">>)
    \o (IF publish.retain THEN <<"save_retain_message">> ELSE <<>>)
    \o <<"append_topic_message">>

\* The cache and the storage after the steps before position n have succeeded.
TopicInfoAfter(publish) == MapInsert(topic_info, publish.topic, TopicId(publish.topic))
TopicStoreAfter(publish, done) ==
    IF \E i \in 1..Len(done): done[i] = "save_topic"
    THEN topic_store \cup {publish.topic} ELSE topic_store
ShardAfter(publish, done) ==
    IF (\E i \in 1..Len(done): done[i] = "create_shard")
       /\ TopicId(publish.topic) \notin DOMAIN shard
    THEN MapInsert(shard, TopicId(publish.topic), <<>>) ELSE shard

\* Message::build_message(publish, publish_properties): the retained message.
BuildMessage(publish) == [payload |-> publish.payload, qos |-> publish.qos]
\* MessageStorage::save_retain_message: the topic's retained message is
\* replaced by the one saved.
SaveRetainMessage(topic_id, message) == MapInsert(retain_message, topic_id, message)
RetainAfter(publish, done) ==
    IF \E i \in 1..Len(done): done[i] = "save_retain_message"
    THEN SaveRetainMessage(TopicId(publish.topic), BuildMessage(publish))
    ELSE retain_message

\* Step n of publish() returned Err: the steps before it stay done.
PublishStorageError(connect_id, publish, n) ==
    /\ Resolved(connect_id)
    /\ n \in 1..Len(PublishSteps(publish))
    /\ \/ /\ faults < MaxFaults
          /\ faults' = faults + 1
       \/ \* the shard of a cached topic was never created: the append is refused
          /\ PublishSteps(publish)[n] = "append_topic_message"
          /\ TopicId(publish.topic) \notin DOMAIN ShardAfter(publish, SubSeq(PublishSteps(publish), 1, n - 1))
          /\ faults' = faults
    /\ topic_info' = TopicInfoAfter(publish)
    /\ topic_store' = TopicStoreAfter(publish, SubSeq(PublishSteps(publish), 1, n - 1))
    /\ shard' = ShardAfter(publish, SubSeq(PublishSteps(publish), 1, n - 1))
    /\ retain_message' = RetainAfter(publish, SubSeq(PublishSteps(publish), 1, n - 1))
    /\ response' = Distinct("UnspecifiedError", TRUE)
    /\ request' = PublishRequest(connect_id)
    /\ UNCHANGED <<callVars, journalVars, connect_id_info, client_id_info, session_info, heartbeat, subVars,
                   group_offset, lastwill, histVars>>

\* The user properties of the PUBACK: those of the packet plus ("offset", offset).
AckUserProperties(publish, offset) == publish.user_properties \cup {<<"offset", offset>>}

PublishOk(connect_id, publish) ==
    LET steps == PublishSteps(publish)
        created == ShardAfter(publish, steps)
        topic_id == TopicId(publish.topic)
    IN
    /\ Resolved(connect_id)
    /\ topic_id \in DOMAIN created
    /\ Len(created[topic_id]) < MaxLog
    /\ topic_info' = TopicInfoAfter(publish)
    /\ topic_store' = TopicStoreAfter(publish, steps)
    /\ retain_message' = RetainAfter(publish, steps)
    /\ shard' = [created EXCEPT ![topic_id] =
                   Append(@, BuildRecord(publish, connect_id_info[connect_id]))]
    /\ response' = CASE publish.qos = 0 -> NoPacket
                     [] publish.qos = 1 ->
                          PubAck(AckUserProperties(publish, Len(created[topic_id]) + 1))
                     [] OTHER -> PubRec
    /\ request' = PublishRequest(connect_id)
    /\ UNCHANGED <<callVars, journalVars, connect_id_info, client_id_info, session_info, heartbeat, subVars,
                   group_offset, lastwill, faults, histVars>>

Publish(connect_id, publish) ==
    \/ PublishNotFound(connect_id)
    \/ \E n \in 1..4: PublishStorageError(connect_id, publish, n)
    \/ PublishOk(connect_id, publish)

\* ------------------------------------------- PUBLISH, one await at a time
\* publish() is an async fn on &self: calls on different connections run as
\* separate tasks and interleave at every .await. A call in progress is kept
\* in publishing: the packet, the topic_id of its local `topic`, the durable
\* steps it has still to await, and how it ended (result is history).
PublishResponse(publish, offset) ==
    CASE publish.qos = 0 -> NoPacket
      [] publish.qos = 1 -> PubAck(AckUserProperties(publish, offset))
      [] OTHER -> PubRec
InFlight(connect_id) ==
    /\ connect_id \in DOMAIN publishing
    /\ publishing[connect_id].result = "pending"

\* publish() up to its first await: the two lookups, get_topic_by_name and,
\* for a name that is not cached, Topic::new and set_topic.
PublishBegin(connect_id, publish) ==
    /\ Resolved(connect_id)
    /\ ~InFlight(connect_id)
    /\ topic_info' = TopicInfoAfter(publish)
    /\ publishing' = MapInsert(publishing, connect_id,
                         [publish |-> publish, topic_id |-> TopicId(publish.topic),
                          origin |-> connect_id_info[connect_id],
                          steps |-> PublishSteps(publish), result |-> "pending"])
    /\ request' = PublishRequest(connect_id)
    /\ UNCHANGED <<journalVars, connect_id_info, client_id_info, session_info, heartbeat,
                   subVars, storeVars, faults, response, histVars>>

\* The await at the head of the steps returns Ok; the append is the last one
\* and needs the shard of the call's topic_id to exist.
PublishStep(connect_id) ==
    LET call == publishing[connect_id]
        step == Head(call.steps)
        topic_id == call.topic_id
    IN
    /\ InFlight(connect_id)
    /\ step = "append_topic_message" => /\ topic_id \in DOMAIN shard
                                        /\ Len(shard[topic_id]) < MaxLog
    /\ topic_store' = IF step = "save_topic"
                      THEN topic_store \cup {call.publish.topic} ELSE topic_store
    /\ shard' = CASE step = "create_shard" /\ topic_id \notin DOMAIN shard ->
                       MapInsert(shard, topic_id, <<>>)
                  [] step = "append_topic_message" ->
                       [shard EXCEPT ![topic_id] =
                          Append(@, BuildRecord(call.publish, call.origin))]
                  [] OTHER -> shard
    /\ retain_message' = IF step = "save_retain_message"
                         THEN SaveRetainMessage(topic_id, BuildMessage(call.publish))
                         ELSE retain_message
    /\ publishing' = [publishing EXCEPT ![connect_id] =
                        [call EXCEPT !.steps = Tail(call.steps),
                                     !.result = IF step = "append_topic_message"
                                                THEN "appended" ELSE "pending"]]
    /\ response' = IF step = "append_topic_message"
                   THEN PublishResponse(call.publish, Len(shard[topic_id]) + 1)
                   ELSE response
    /\ request' = PublishRequest(connect_id)
    /\ UNCHANGED <<journalVars, cacheVars, heartbeat, subVars, group_offset, lastwill, faults,
                   histVars>>

\* The await at the head of the steps returns Err: a failure of the storage,
\* or an append to a shard that has not been created.
PublishStepError(connect_id) ==
    LET call == publishing[connect_id] IN
    /\ InFlight(connect_id)
    /\ \/ /\ faults < MaxFaults
          /\ faults' = faults + 1
       \/ /\ Head(call.steps) = "append_topic_message"
          /\ call.topic_id \notin DOMAIN shard
          /\ faults' = faults
    /\ publishing' = [publishing EXCEPT ![connect_id] =
                        [call EXCEPT !.steps = <<>>,
                                     !.result = IF faults' = faults THEN "no_shard"
                                                ELSE "failed"]]
    /\ response' = Distinct("UnspecifiedError", TRUE)
    /\ request' = PublishRequest(connect_id)
    /\ UNCHANGED <<journalVars, cacheVars, heartbeat, subVars, storeVars, histVars>>

\* publish_ack / publish_rel: the handlers of PUBACK and PUBREL are empty.
\* acked records (as history) that the subscriber's acknowledgement of the
\* delivery of `offset` has reached the broker.
PublishAck(offset) ==
    /\ \E i \in 1..Len(sends): sends[i].offset = offset /\ sends[i].qos >= 1
    /\ offset \notin acked
    /\ acked' = acked \cup {offset}
    /\ request' = NoRequest
    /\ UNCHANGED <<callVars, journalVars, cacheVars, heartbeat, subVars, storeVars, faults, response,
                   sends, commits, since_disconnect, retain_out>>

PublishRel == UNCHANGED vars

\* -------------------------------------------------------------- SUBSCRIBE
\* SubscribeManager::parse_subscribe: the descriptor of an exclusive
\* subscription, keyed by the client of the connection.
Subscriber(connect_id, subscribe) ==
    [client_id |-> connect_id_info[connect_id], connect_id |-> connect_id,
     topic_name |-> subscribe.filter, topic_id |-> TopicId(subscribe.filter),
     qos |-> subscribe.qos, nolocal |-> subscribe.nolocal,
     preserve_retain |-> subscribe.preserve_retain]

ParseSubscribe(connect_id, subscribe) ==
    IF connect_id \in DOMAIN connect_id_info
    THEN MapInsert(exclusive_subscribe, connect_id_info[connect_id],
                   Subscriber(connect_id, subscribe))
    ELSE exclusive_subscribe

\* The topic of a filter is created, persisted and given its shard when absent.
SubscribeTopic(connect_id, subscribe) ==
    IF connect_id \in DOMAIN connect_id_info /\ subscribe.filter \notin DOMAIN topic_info
    THEN /\ topic_info' = MapInsert(topic_info, subscribe.filter, TopicId(subscribe.filter))
         /\ topic_store' = topic_store \cup {subscribe.filter}
         /\ shard' = IF TopicId(subscribe.filter) \in DOMAIN shard THEN shard
                     ELSE MapInsert(shard, TopicId(subscribe.filter), <<>>)
    ELSE UNCHANGED <<topic_info, topic_store, shard>>

\* send_retain_message: the retained message of the filter's topic, when
\* there is one, is pushed to the subscribing connection with the retain flag.
SendRetainMessage(connect_id, subscribe) ==
    IF TopicId(subscribe.filter) \in DOMAIN retain_message
    THEN <<[connection_id |-> connect_id, topic |-> subscribe.filter, retain |-> TRUE,
            payload |-> retain_message[TopicId(subscribe.filter)].payload]>>
    ELSE <<>>

\* retain_failed: send_retain_message returned Err.
Subscribe(connect_id, subscribe, retain_failed) ==
    /\ connect_id \in DOMAIN connect_id_info => connect_id_info[connect_id] \in Subscribers
    /\ exclusive_subscribe' = ParseSubscribe(connect_id, subscribe)
    /\ SubscribeTopic(connect_id, subscribe)
    /\ IF retain_failed
       THEN /\ faults < MaxFaults
            /\ faults' = faults + 1
            /\ retain_out' = <<>>
            /\ response' = Distinct("UnspecifiedError", TRUE)
       ELSE /\ faults' = faults
            /\ retain_out' = SendRetainMessage(connect_id, subscribe)
            /\ response' = SubAck
    /\ since_disconnect' =
         IF connect_id \in DOMAIN connect_id_info
         THEN MapRemove(since_disconnect, connect_id_info[connect_id])
         ELSE since_disconnect
    /\ request' = NoRequest
    /\ UNCHANGED <<callVars, journalVars, connect_id_info, client_id_info, session_info, heartbeat, push_thread,
                   task, group_offset, lastwill, retain_message, sends, commits, acked>>

\* ------------------------------------------------------------ UNSUBSCRIBE
\* SubscribeManager::remove_subscribe(connect_id, topic_ids)
RemoveSubscribe(connect_id, topic_ids) ==
    [k \in {x \in DOMAIN exclusive_subscribe:
              ~ (/\ exclusive_subscribe[x].connect_id = connect_id
                 /\ exclusive_subscribe[x].topic_id \in topic_ids)}
       |-> exclusive_subscribe[k]]

UnSubscribe(connect_id, filters) ==
    /\ exclusive_subscribe' =
         IF filters # {}
         THEN RemoveSubscribe(connect_id,
                              {topic_info[f] : f \in filters \cap DOMAIN topic_info})
         ELSE exclusive_subscribe
    /\ response' = UnsubAck
    /\ request' = NoRequest
    /\ UNCHANGED <<callVars, journalVars, cacheVars, heartbeat, push_thread, task, storeVars, faults, histVars>>

\* ------------------------------------------------- exclusive push threads
\* record_num of the push thread: the records one read asks for.
record_num == 5

\* The state of a spawned push loop at the top of its first iteration.
\* loops and seen are history: the loops of the key that have been spawned
\* and have not ended, and whether a supervisor pass has found the key in
\* push_thread with a descriptor other than the one of the loop.
NewTask(subscribe) ==
    [pc |-> "loop_top", subscribe |-> subscribe, connect_id |-> 0, lo |-> 1, hi |-> 0, idx |-> 0,
     loops |-> 1, seen |-> FALSE]
LiveLoops(k) == IF k \in DOMAIN task THEN task[k].loops ELSE 0

\* The keys a supervisor pass would spawn for if it did not look at push_thread.
SpawnKeys_All == DOMAIN exclusive_subscribe
\* The keys a supervisor pass spawns for: those not in push_thread.
SpawnKeys == DOMAIN exclusive_subscribe \ DOMAIN push_thread

\* SubscribeExclusive::exclusive_sub_push_thread, one pass of start()'s loop:
\* every subscription whose key is not in push_thread gets a stop channel
\* (recorded in push_thread) and a spawned push loop.
ExclusiveSubPushThread ==
    LET new == SpawnKeys IN
    /\ push_thread' = [k \in DOMAIN push_thread \cup new |->
                         IF k \in new THEN <<>> ELSE push_thread[k]]
    /\ task' = [k \in DOMAIN task \cup new |->
                  IF k \in new
                  THEN [NewTask(exclusive_subscribe[k]) EXCEPT
                          !.loops = Min(LiveLoops(k) + 1, 2)]
                  ELSE IF /\ k \in DOMAIN exclusive_subscribe
                          /\ exclusive_subscribe[k] # task[k].subscribe
                       THEN [task[k] EXCEPT !.seen = TRUE]
                       ELSE task[k]]
    /\ since_disconnect' = [c \in DOMAIN since_disconnect |-> Min(since_disconnect[c] + 1, 1)]
    /\ request' = NoRequest
    /\ UNCHANGED <<callVars, journalVars, cacheVars, heartbeat, exclusive_subscribe, storeVars, faults, response,
                   sends, commits, acked, retain_out>>

\* broadcast::channel(2): the values a lagging receiver can still read.
stop_capacity == 2
\* Sender::send on a stop channel, as the sequence of what try_recv will
\* return: the unread flags, oldest first; when the channel is full the oldest
\* flag is dropped and the receiver's next try_recv is Err(Lagged).
ChannelSend(chan, flag) ==
    LET unread == SelectSeq(chan, LAMBDA m: m # "lagged") IN
    IF Len(unread) < stop_capacity THEN Append(chan, flag)
    ELSE <<"lagged">> \o Tail(unread) \o <<flag>>
\* A holder of the stop sender recorded in push_thread sends flag on it.
SendStop(k, flag) ==
    /\ k \in DOMAIN push_thread
    /\ push_thread' = [push_thread EXCEPT ![k] = ChannelSend(@, flag)]
    /\ request' = NoRequest
    /\ UNCHANGED <<callVars, journalVars, cacheVars, heartbeat, exclusive_subscribe, task, storeVars, faults,
                   response, histVars>>

\* The top of an iteration: stop_rx.try_recv(), then get_connect_id.
TaskTop(k) ==
    LET t == task[k]
        chan == push_thread[k]
        stop == chan # <<>> /\ Head(chan) = "true"
    IN
    /\ t.pc = "loop_top"
    /\ push_thread' = IF chan # <<>> THEN [push_thread EXCEPT ![k] = Tail(chan)]
                      ELSE push_thread
    /\ task' = [task EXCEPT ![k] =
                  IF stop THEN [t EXCEPT !.pc = "stopped", !.loops = t.loops - 1]
                  ELSE IF HasConnectId(t.subscribe.client_id)
                       THEN [t EXCEPT !.pc = "read",
                                      !.connect_id = GetConnectId(t.subscribe.client_id)]
                       ELSE t]
    /\ request' = NoRequest
    /\ UNCHANGED <<callVars, journalVars, cacheVars, heartbeat, exclusive_subscribe, storeVars, faults, response,
                   histVars>>

\* MessageStorage::read_topic_message: up to record_num records after the
\* committed offset of the group, as the pair of their first and last offsets.
ReadLo(topic_id, group_id) == Committed(topic_id, group_id) + 1
ReadHi(topic_id, group_id) ==
    Min(Committed(topic_id, group_id) + record_num, Len(shard[topic_id]))

TaskRead(k) ==
    LET t == task[k]
        topic_id == t.subscribe.topic_id
        group_id == GroupId(t.subscribe.client_id)
    IN
    /\ t.pc = "read"
    /\ topic_id \in DOMAIN shard
    /\ task' = [task EXCEPT ![k] =
                  IF ReadHi(topic_id, group_id) < ReadLo(topic_id, group_id)
                  THEN [t EXCEPT !.pc = "loop_top"]
                  ELSE [t EXCEPT !.pc = "record", !.lo = ReadLo(topic_id, group_id),
                                 !.hi = ReadHi(topic_id, group_id),
                                 !.idx = 1]]
    /\ request' = NoRequest
    /\ UNCHANGED <<callVars, journalVars, cacheVars, heartbeat, exclusive_subscribe, push_thread, storeVars,
                   faults, response, histVars>>

\* read_topic_message returned Err: log, sleep, next iteration.
TaskReadError(k) ==
    /\ task[k].pc = "read"
    /\ \/ /\ faults < MaxFaults
          /\ faults' = faults + 1
       \/ /\ task[k].subscribe.topic_id \notin DOMAIN shard
          /\ faults' = faults
    /\ task' = [task EXCEPT ![k].pc = "loop_top"]
    /\ request' = NoRequest
    /\ UNCHANGED <<callVars, journalVars, cacheVars, heartbeat, exclusive_subscribe, push_thread, storeVars,
                   response, histVars>>

\* The batch of a loop is the records lo..hi of the shard; idx counts the
\* records of the batch the for loop has taken, in the order of the batch.
BatchLen(t) == t.hi - t.lo + 1
\* A loop that would take the batch from its end (as by popping the result);
\* not what the for loop does.
RecordOffset_Reverse(t) == t.hi - (t.idx - 1)
RecordOffset(t) == t.lo + (t.idx - 1)

\* The loop state once the record at idx is done: the next record of the
\* batch, or the top of the next iteration.
NextRecord(t) ==
    IF t.idx < BatchLen(t) THEN [t EXCEPT !.pc = "record", !.idx = t.idx + 1]
    ELSE [t EXCEPT !.pc = "loop_top"]

\* The record is not pushed: it fails to decode, or nolocal suppresses it.
Skipped(subscribe, record) ==
    \/ ~record.decodable
    \/ subscribe.nolocal /\ subscribe.client_id = record.client_id

\* min_qos(msg.qos, subscribe.qos)
MinQos(msg_qos, sub_qos) == Min(msg_qos, sub_qos)

\* A PUBLISH that would carry the QoS of the subscription instead of the
\* minimum; not what the loop builds.
PushPublish_SubQos(t, offset, msg) ==
    [connection_id |-> t.connect_id, client_id |-> t.subscribe.client_id,
     qos |-> t.subscribe.qos,
     retain |-> IF t.subscribe.preserve_retain THEN msg.retain ELSE FALSE,
     topic |-> t.subscribe.topic_name, user_properties |-> {},
     offset |-> offset, origin |-> msg.origin]
\* The PUBLISH built for a record; offset and origin are history.
PushPublish(t, offset, msg) ==
    [connection_id |-> t.connect_id, client_id |-> t.subscribe.client_id,
     qos |-> MinQos(msg.qos, t.subscribe.qos),
     retain |-> IF t.subscribe.preserve_retain THEN msg.retain ELSE FALSE,
     topic |-> t.subscribe.topic_name, user_properties |-> {},
     offset |-> offset, origin |-> msg.origin]

\* One record of the batch: decode, nolocal, build the PUBLISH, publish_to_client.
TaskRecord(k) ==
    LET t == task[k]
        record == shard[t.subscribe.topic_id][RecordOffset(t)]
    IN
    /\ t.pc = "record"
    /\ IF Skipped(t.subscribe, record)
       THEN /\ task' = [task EXCEPT ![k] = NextRecord(t)]
            /\ sends' = sends
       ELSE /\ task' = [task EXCEPT ![k].pc = "commit"]
            /\ sends' = Append(sends, PushPublish(t, RecordOffset(t), record))
    /\ request' = NoRequest
    /\ UNCHANGED <<callVars, journalVars, cacheVars, heartbeat, exclusive_subscribe, push_thread, storeVars,
                   faults, response, commits, acked, since_disconnect, retain_out>>

\* A commit of the record's position in the batch instead of a log offset;
\* not what the loop passes.
CommitOffset_Position(t) == t.idx - 1
\* The offset passed to commit_group_offset: that of result.last().
CommitOffset(t) == t.hi

\* commit_group_offset after a pushed record; failed: it returned Err.
TaskCommit(k, failed) ==
    LET t == task[k]
        group_id == GroupId(t.subscribe.client_id)
    IN
    /\ t.pc = "commit"
    /\ IF failed
       THEN /\ faults < MaxFaults
            /\ faults' = faults + 1
            /\ group_offset' = group_offset
       ELSE /\ faults' = faults
            /\ group_offset' = CommitGroupOffset(t.subscribe.topic_id, group_id, CommitOffset(t))
    /\ commits' = Append(commits, [topic_id |-> t.subscribe.topic_id, group_id |-> group_id,
                                   offset |-> CommitOffset(t), ok |-> ~failed])
    /\ task' = [task EXCEPT ![k] = NextRecord(t)]
    /\ request' = NoRequest
    /\ UNCHANGED <<callVars, journalVars, cacheVars, heartbeat, exclusive_subscribe, push_thread, topic_store,
                   shard, lastwill, retain_message, response, sends, acked,
                   since_disconnect, retain_out>>

\* A record written to the shard by another writer of the storage adapter.
ForeignAppend(topic_id) ==
    /\ topic_id \in DOMAIN shard
    /\ Len(shard[topic_id]) < MaxLog
    /\ shard' = [shard EXCEPT ![topic_id] = Append(@, ForeignRecord)]
    /\ request' = NoRequest
    /\ UNCHANGED <<callVars, journalVars, cacheVars, heartbeat, subVars, topic_store, group_offset, lastwill,
                   retain_message, faults, response, histVars>>

\* ------------------------------------- placement center: journal service
\* The RPCs of GrpcEngineService that may be in progress at once.
Calls == {1, 2}
ShardRequests == {"s1", "s2"}
WriteErrors == {"not leader", "timeout"}
\* A call that has not been received yet.
IdleCall == [pc |-> "idle"]
\* prost's encode_to_vec of a request message: its bytes, tagged by the type.
EncodeToVec(message_type, req) == <<"bytes", message_type, req>>
\* The request message type of each RPC.
RequestType(op) ==
    CASE op = "create_shard" -> "CreateShardRequest"
      [] op = "delete_shard" -> "DeleteShardRequest"
      [] op = "create_segment" -> "CreateSegmentRequest"
      [] op = "delete_segment" -> "DeleteSegmentRequest"
\* Every RPC submitting the kind of create_shard, as a handler copied from
\* create_shard without changing the kind would; not what the handlers do.
StorageKind_Copied(op) == "JournalCreateShard"
\* The StorageDataType each handler passes to StorageData::new.
StorageKind(op) ==
    CASE op = "create_shard" -> "JournalCreateShard"
      [] op = "delete_shard" -> "JournalDeleteShard"
      [] op = "create_segment" -> "JournalCreateSegment"
      [] op = "delete_segment" -> "JournalDeleteSegment"
\* StorageData::new(data_type, value)
StorageData(data_type, value) == [data_type |-> data_type, value |-> value]

\* The handler up to its await: the request is wrapped and handed to
\* raft_machine_apply.client_write; written lists what the call submitted.
JournalWrite(id, op, req) ==
    /\ journal_call[id].pc = "idle"
    /\ journal_call' = [journal_call EXCEPT ![id] =
         [pc |-> "client_write", op |-> op, req |-> req,
          written |-> <<StorageData(StorageKind(op), EncodeToVec(RequestType(op), req))>>]]
    /\ UNCHANGED <<callVars, cacheVars, heartbeat, subVars, storeVars, faults, response, histVars,
                   request>>
create_shard(id, req) == JournalWrite(id, "create_shard", req)
delete_shard(id, req) == JournalWrite(id, "delete_shard", req)
create_segment(id, req) == JournalWrite(id, "create_segment", req)
delete_segment(id, req) == JournalWrite(id, "delete_segment", req)

\* get_shard answers a default reply and writes nothing.
get_shard(id, req) ==
    /\ journal_call[id].pc = "idle"
    /\ journal_call' = [journal_call EXCEPT ![id] =
         [pc |-> "done", op |-> "get_shard", req |-> req, written |-> <<>>,
          result |-> "none", reply |-> [status |-> "ok", body |-> "GetShardReply"]]]
    /\ UNCHANGED <<callVars, cacheVars, heartbeat, subVars, storeVars, faults, response, histVars,
                   request>>

\* client_write returned Ok: the write is acknowledged, the reply is Ok.
ClientWriteOk(id) ==
    /\ journal_call[id].pc = "client_write"
    /\ journal_call' = [journal_call EXCEPT ![id] =
         [pc |-> "done", op |-> @.op, req |-> @.req, written |-> @.written,
          result |-> "ok", reply |-> [status |-> "ok", body |-> "CommonReply"]]]
    /\ UNCHANGED <<callVars, cacheVars, heartbeat, subVars, storeVars, faults, response, histVars,
                   request>>

\* client_write returned Err(e): the reply is Status::cancelled(e.to_string()).
ClientWriteErr(id, e) ==
    /\ journal_call[id].pc = "client_write"
    /\ journal_call' = [journal_call EXCEPT ![id] =
         [pc |-> "done", op |-> @.op, req |-> @.req, written |-> @.written,
          result |-> e, reply |-> [status |-> "cancelled", body |-> e]]]
    /\ UNCHANGED <<callVars, cacheVars, heartbeat, subVars, storeVars, faults, response, histVars,
                   request>>

\* ------------------------------------------------------------ the system
Init ==
    /\ connect_id_info = EmptyMap
    /\ client_id_info = EmptyMap
    /\ session_info = EmptyMap
    /\ topic_info = EmptyMap
    /\ heartbeat = EmptyMap
    /\ exclusive_subscribe = EmptyMap
    /\ push_thread = EmptyMap
    /\ task = EmptyMap
    /\ topic_store = {}
    /\ shard = EmptyMap
    /\ group_offset = EmptyMap
    /\ lastwill = {}
    /\ faults = 0
    /\ response = NoPacket
    /\ sends = <<>>
    /\ commits = <<>>
    /\ acked = {}
    /\ since_disconnect = EmptyMap
    /\ retain_message = EmptyMap
    /\ retain_out = <<>>
    /\ journal_call = [id \in Calls |-> IdleCall]
    /\ request = NoRequest
    /\ publishing = EmptyMap

\* ----------------------------------------------------------------- inputs
\* The client_id a record may carry: none, or that of a client.
RecordClients == {"", "a"}
PublishPacket(qos, rec_client) ==
    [topic |-> "t", qos |-> qos, retain |-> FALSE, rec_client |-> rec_client,
     user_properties |-> {}, payload |-> "p"]
SubscribePacket(qos, nolocal) ==
    [filter |-> "t", qos |-> qos, nolocal |-> nolocal, preserve_retain |-> FALSE]
Publishes ==
    [topic : TopicNames, qos : QoS, retain : RetainInputs, rec_client : RecordClients,
     user_properties : {{}}, payload : {"p"}]
Subscribes ==
    [filter : TopicNames, qos : QoS, nolocal : BOOLEAN, preserve_retain : PreserveRetainInputs]

\* Every handler and every step of the push threads, on all the inputs.
Next ==
    \/ \E c \in Conns, cl \in Clients, w \in BOOLEAN, l \in LoginResults: Connect(c, cl, w, l)
    \/ \E c \in Conns: Disconnect(c)
    \/ \E c \in Conns: Ping(c)
    \/ \E c \in Conns, p \in Publishes: Publish(c, p)
    \/ \E c \in Conns, p \in Publishes: PublishBegin(c, p)
    \/ \E c \in Conns: PublishStep(c)
    \/ \E c \in Conns: PublishStepError(c)
    \/ \E o \in 1..MaxLog: PublishAck(o)
    \/ PublishRel
    \/ \E c \in Conns, s \in Subscribes, f \in BOOLEAN: Subscribe(c, s, f)
    \/ \E c \in Conns, fs \in SUBSET TopicNames: UnSubscribe(c, fs)
    \/ ExclusiveSubPushThread
    \/ \E k \in DOMAIN task: TaskTop(k)
    \/ \E k \in DOMAIN task: TaskRead(k)
    \/ \E k \in DOMAIN task: TaskReadError(k)
    \/ \E k \in DOMAIN task: TaskRecord(k)
    \/ \E k \in DOMAIN task, f \in BOOLEAN: TaskCommit(k, f)
    \/ \E t \in DOMAIN shard: ForeignAppend(t)

Spec == Init /\ [][Next]_vars

\* The connection handlers alone: CONNECT, DISCONNECT and PINGREQ on every input.
ConnNext ==
    \/ \E c \in Conns, cl \in Clients, w \in BOOLEAN, l \in LoginResults: Connect(c, cl, w, l)
    \/ \E c \in Conns: Disconnect(c)
    \/ \E c \in Conns: Ping(c)

ConnSpec == Init /\ [][ConnNext]_vars

\* Subscriptions and the supervisor of the push threads; client "a" uses
\* connection 1 and client "b" connection 2, and nothing is published.
SubNext ==
    \/ ConnectOk(1, "a", FALSE)
    \/ ConnectOk(2, "b", FALSE)
    \/ \E c \in Conns: Disconnect(c)
    \/ \E c \in Conns, n \in BOOLEAN, f \in BOOLEAN: Subscribe(c, SubscribePacket(0, n), f)
    \/ \E c \in Conns, fs \in SUBSET TopicNames: UnSubscribe(c, fs)
    \/ ExclusiveSubPushThread
    \/ \E k \in DOMAIN task: TaskTop(k)
    \/ \E k \in DOMAIN task: TaskRead(k)
    \/ \E k \in DOMAIN task: TaskReadError(k)

SubSpec == Init /\ [][SubNext]_vars

\* The push thread of subscriber "a" (connection 1) on QoS 0 traffic: records
\* of "a" carrying the client_id of "a" or none, records of "b" (connection 2)
\* carrying none, undecodable records, nolocal on and off, failing commits.
OrderNext ==
    \/ ConnectOk(1, "a", FALSE)
    \/ ConnectOk(2, "b", FALSE)
    \/ Disconnect(1)
    \/ \E rc \in RecordClients: PublishOk(1, PublishPacket(0, rc))
    \/ PublishOk(2, PublishPacket(0, ""))
    \/ \E n \in BOOLEAN: Subscribe(1, SubscribePacket(0, n), FALSE)
    \/ ExclusiveSubPushThread
    \/ \E k \in DOMAIN task: TaskTop(k)
    \/ \E k \in DOMAIN task: TaskRead(k)
    \/ \E k \in DOMAIN task: TaskRecord(k)
    \/ \E k \in DOMAIN task, f \in BOOLEAN: TaskCommit(k, f)
    \/ \E t \in DOMAIN shard: ForeignAppend(t)

OrderSpec == Init /\ [][OrderNext]_vars

\* The same with the scheduling of the runtime: the supervisor runs every
\* second, a spawned push loop keeps being polled, and a storage call that
\* can succeed is not failed for ever.
OrderFairness ==
    /\ WF_vars(ExclusiveSubPushThread)
    /\ WF_vars(\E k \in DOMAIN task: TaskTop(k))
    /\ WF_vars(\E k \in DOMAIN task: TaskRead(k))
    /\ WF_vars(\E k \in DOMAIN task: TaskRecord(k))
    /\ WF_vars(\E k \in DOMAIN task: TaskCommit(k, FALSE))

FairOrderSpec == OrderSpec /\ OrderFairness

\* The push thread of subscriber "a" on every pair of published and
\* subscribed QoS, with the acknowledgements of the subscriber; the storage
\* does not fail.
QosNext ==
    \/ ConnectOk(1, "a", FALSE)
    \/ Disconnect(1)
    \/ \E q \in QoS: PublishOk(1, PublishPacket(q, ""))
    \/ PublishNotFound(1)
    \/ \E o \in 1..MaxLog: PublishAck(o)
    \/ PublishRel
    \/ \E q \in QoS: Subscribe(1, SubscribePacket(q, FALSE), FALSE)
    \/ ExclusiveSubPushThread
    \/ \E k \in DOMAIN task: TaskTop(k)
    \/ \E k \in DOMAIN task: TaskRead(k)
    \/ \E k \in DOMAIN task: TaskRecord(k)
    \/ \E k \in DOMAIN task: TaskCommit(k, FALSE)

QosSpec == Init /\ [][QosNext]_vars

\* Retained messages: client "a" publishes with and without the retain flag,
\* with an empty and a non-empty payload, and subscribes; publish() does not
\* fail, send_retain_message may.
Payloads == {"", "p", "q"}
RetainPacket(retain, payload) ==
    [topic |-> "t", qos |-> 0, retain |-> retain, rec_client |-> "",
     user_properties |-> {}, payload |-> payload]
RetainNext ==
    \/ ConnectOk(1, "a", FALSE)
    \/ Disconnect(1)
    \/ \E r \in BOOLEAN, pl \in Payloads: PublishOk(1, RetainPacket(r, pl))
    \/ PublishNotFound(1)
    \/ \E f \in BOOLEAN: Subscribe(1, SubscribePacket(0, FALSE), f)
    \/ \E fs \in SUBSET TopicNames: UnSubscribe(1, fs)

RetainSpec == Init /\ [][RetainNext]_vars

\* PUBLISH on connection 1 with every outcome of its durable steps: every
\* QoS, with and without the retain flag, before CONNECT and after DISCONNECT.
PubPacket(qos, retain) ==
    [topic |-> "t", qos |-> qos, retain |-> retain, rec_client |-> "",
     user_properties |-> {}, payload |-> "p"]
PubNext ==
    \/ ConnectOk(1, "a", FALSE)
    \/ Disconnect(1)
    \/ \E q \in QoS, r \in BOOLEAN: Publish(1, PubPacket(q, r))

PubSpec == Init /\ [][PubNext]_vars

\* PUBLISH calls of two connections on the same topic name, interleaved at
\* their awaits, with and without the retain flag and with failing storage.
RaceNext ==
    \/ ConnectOk(1, "a", FALSE)
    \/ ConnectOk(2, "b", FALSE)
    \/ \E c \in Conns, r \in BOOLEAN: PublishBegin(c, PubPacket(0, r))
    \/ \E c \in Conns: PublishStep(c)
    \/ \E c \in Conns: PublishStepError(c)

RaceSpec == Init /\ [][RaceNext]_vars

\* The push thread of subscriber "a" with flags sent on its stop channel,
\* while the client is online or offline and the log is empty or not.
StopFlags == {"true", "false"}
StopNext ==
    \/ ConnectOk(1, "a", FALSE)
    \/ Disconnect(1)
    \/ PublishOk(1, PublishPacket(0, ""))
    \/ PublishNotFound(1)
    \/ \E n \in BOOLEAN: Subscribe(1, SubscribePacket(0, n), FALSE)
    \/ ExclusiveSubPushThread
    \/ \E k \in DOMAIN task: TaskTop(k)
    \/ \E k \in DOMAIN task: TaskRead(k)
    \/ \E k \in DOMAIN task: TaskRecord(k)
    \/ \E k \in DOMAIN task: TaskCommit(k, FALSE)
    \/ \E k \in DOMAIN push_thread, f \in StopFlags: SendStop(k, f)

StopSpec == Init /\ [][StopNext]_vars

\* The journal RPCs of the placement center, two calls at a time.
JournalNext ==
    \/ \E id \in Calls, req \in ShardRequests: create_shard(id, req)
    \/ \E id \in Calls, req \in ShardRequests: delete_shard(id, req)
    \/ \E id \in Calls, req \in ShardRequests: get_shard(id, req)
    \/ \E id \in Calls, req \in ShardRequests: create_segment(id, req)
    \/ \E id \in Calls, req \in ShardRequests: delete_segment(id, req)
    \/ \E id \in Calls: ClientWriteOk(id)
    \/ \E id \in Calls, e \in WriteErrors: ClientWriteErr(id, e)

JournalSpec == Init /\ [][JournalNext]_vars

\* ------------------------------------------------------------- properties
\* The topic and the subscriber the push-thread properties are about.
T == TopicId("t")
SentOffsets(client_id) ==
    {sends[i].offset : i \in {j \in 1..Len(sends): sends[j].client_id = client_id}}

\* C1: in every reachable state the cache maps connection_id -> client_id and
\* client_id -> connection_id are mutual inverses: whenever a connection maps
\* to a client that has an entry, the client maps back to that connection,
\* and conversely.
C1_MutualInverse ==
    /\ \A c \in DOMAIN connect_id_info:
         connect_id_info[c] \in DOMAIN client_id_info
           => client_id_info[connect_id_info[c]] = c
    /\ \A cl \in DOMAIN client_id_info:
         client_id_info[cl] \in DOMAIN connect_id_info
           => connect_id_info[client_id_info[cl]] = cl

\* C2: a CONNECT that binds a client_id to connection c2 while the client_id
\* is bound to another connection c1 supersedes c1: after it c1 is no longer
\* mapped to the client_id and c1 has no heartbeat entry.
C2_TakeOverSupersedes ==
    [][\A c1 \in Conns, c2 \in Conns, cl \in Clients:
         (/\ c1 # c2
          /\ c1 \in DOMAIN connect_id_info /\ connect_id_info[c1] = cl
          /\ ~(c2 \in DOMAIN connect_id_info /\ connect_id_info[c2] = cl)
          /\ c2 \in DOMAIN connect_id_info' /\ connect_id_info'[c2] = cl)
         => /\ ~(c1 \in DOMAIN connect_id_info' /\ connect_id_info'[c1] = cl)
            /\ c1 \notin DOMAIN heartbeat']_vars

\* C3: once a supervisor tick has passed since the DISCONNECT of a client
\* (and the client has not connected or subscribed again), its cache
\* mappings, its heartbeat entry, its subscription descriptors, its
\* push_thread entry and its running push loop are gone.
C3_TeardownWithinTick ==
    \A cl \in DOMAIN since_disconnect:
      since_disconnect[cl] >= 1 =>
        /\ cl \notin DOMAIN client_id_info
        /\ \A c \in DOMAIN connect_id_info: connect_id_info[c] # cl
        /\ \A c \in DOMAIN heartbeat: c \in DOMAIN connect_id_info
        /\ cl \notin DOMAIN exclusive_subscribe
        /\ cl \notin DOMAIN push_thread
        /\ cl \in DOMAIN task => task[cl].pc = "stopped"

\* C4: every record appended at offset o to the topic of a live exclusive
\* subscription whose client is connected is eventually pushed to the client
\* (or is one the subscription skips: undecodable, or suppressed by nolocal)
\* with an offset >= o committed for the group, unless the subscription is
\* removed or the client disconnects first.
Live(cl) ==
    /\ cl \in DOMAIN exclusive_subscribe
    /\ exclusive_subscribe[cl].topic_id = T
    /\ HasConnectId(cl)
Handled(cl, o) ==
    /\ \/ o \in SentOffsets(cl)
       \/ /\ cl \in DOMAIN exclusive_subscribe
          /\ T \in DOMAIN shard
          /\ o \in DOMAIN shard[T]
          /\ Skipped(exclusive_subscribe[cl], shard[T][o])
    /\ Committed(T, GroupId(cl)) >= o
C4_EventualDelivery ==
    \A cl \in Subscribers, o \in 1..MaxLog:
      (Live(cl) /\ T \in DOMAIN shard /\ o \in DOMAIN shard[T])
        ~> (~Live(cl) \/ Handled(cl, o))

C6_CommitAfterAck ==
    \A i \in 1..Len(sends):
      (/\ sends[i].qos >= 1
       /\ Committed(T, GroupId(sends[i].client_id)) >= sends[i].offset)
      => sends[i].offset \in acked

\* C7: the push loop of a subscription emits records in offset order: a
\* record is never pushed for the first time after a record of a larger
\* offset has been pushed.
C7_OffsetOrder ==
    \A i \in 1..Len(sends), j \in 1..Len(sends):
      (/\ i < j
       /\ sends[i].client_id = sends[j].client_id
       /\ sends[i].offset > sends[j].offset)
      => \E k \in 1..(i - 1):
           /\ sends[k].client_id = sends[j].client_id
           /\ sends[k].offset = sends[j].offset
\* A record was pushed twice (its batch was read again) and a record of a
\* larger offset was pushed after it.
C7_Witness ==
    \E i \in 1..Len(sends), j \in 1..Len(sends), k \in 1..Len(sends):
      /\ i < j /\ j < k
      /\ sends[i].offset = sends[j].offset
      /\ sends[k].offset > sends[j].offset

\* C8: a QoS 0 record is pushed to the subscriber at most once and the PUBLISH
\* pushed for it carries the user property ("offset", <its log offset>).
C8_Qos0Delivery ==
    \A i \in 1..Len(sends):
      shard[T][sends[i].offset].qos = 0 =>
        /\ <<"offset", sends[i].offset>> \in sends[i].user_properties
        /\ \A j \in 1..Len(sends):
             (sends[j].client_id = sends[i].client_id /\ sends[j].offset = sends[i].offset)
               => j = i

\* C9: the push loop of a nolocal subscription never emits a PUBLISH for a
\* record that the subscription's own client published.
C9_NoLocal ==
    \A i \in 1..Len(sends):
      task[sends[i].client_id].subscribe.nolocal => sends[i].origin # sends[i].client_id

\* C10: every PUBLISH a push loop emits carries the smaller of the QoS of the
\* record and the QoS of the subscription, so never more than either.
C10_EffectiveQos ==
    \A i \in 1..Len(sends):
      LET msg_qos == shard[T][sends[i].offset].qos
          sub_qos == task[sends[i].client_id].subscribe.qos
      IN /\ sends[i].qos = (IF msg_qos <= sub_qos THEN msg_qos ELSE sub_qos)
         /\ sends[i].qos <= msg_qos
         /\ sends[i].qos <= sub_qos
\* A QoS 1 record was pushed at QoS 0 to a qos=0 subscription.
C10_Witness ==
    \E i \in 1..Len(sends):
      /\ shard[T][sends[i].offset].qos = 1
      /\ task[sends[i].client_id].subscribe.qos = 0
      /\ sends[i].qos = 0

\* C11: a SUBSCRIBE on the topic is pushed the payload of the topic's last
\* PUBLISH(retain=true), once and flagged as retained, and is pushed no
\* retained message when there was no such PUBLISH or when the last one had
\* an empty payload (which clears the retained message).
RetainedOffsets == IF T \in DOMAIN shard THEN {i \in DOMAIN shard[T]: shard[T][i].retain} ELSE {}
LastRetained == shard[T][CHOOSE i \in RetainedOffsets: \A j \in RetainedOffsets: j <= i].payload
SubscribeStep ==
    /\ response'.type = "SubAck"
    /\ <<response, retain_out>>' # <<response, retain_out>>
C11_RetainedOnSubscribe ==
    [][SubscribeStep =>
         IF RetainedOffsets = {} \/ LastRetained = ""
         THEN retain_out' = <<>>
         ELSE /\ Len(retain_out') = 1
              /\ retain_out'[1].retain
              /\ retain_out'[1].payload = LastRetained]_vars

\* C12: a client that has sent a normal DISCONNECT (and has not connected
\* again) has no last-will record left in storage.
C12_LastWillDropped ==
    \A cl \in DOMAIN since_disconnect: cl \notin lastwill

\* C13: a topic name is in the metadata cache only if the topic has been
\* persisted by save_topic and its shard has been created.
C13_PersistedBeforeUse ==
    \A name \in DOMAIN topic_info:
      /\ name \in topic_store
      /\ topic_info[name] \in DOMAIN shard

\* C14: when true is pending on the stop channel of a push loop, the loop's
\* next iteration boundary ends the loop; the loop stops only at an iteration
\* boundary, and a stopped loop reads, sends and commits nothing more.
Pending(chan, flag) == \E i \in 1..Len(chan): chan[i] = flag
Boundary(k) ==
    /\ task[k].pc = "loop_top"
    /\ task'[k] # task[k] \/ Len(push_thread'[k]) < Len(push_thread[k])
C14_StopAtBoundary ==
    [][\A k \in DOMAIN task:
         /\ (Boundary(k) /\ Pending(push_thread[k], "true")) => task'[k].pc = "stopped"
         /\ (task'[k].pc = "stopped" /\ task[k].pc # "stopped") => task[k].pc = "loop_top"
         /\ task[k].pc = "stopped" =>
              /\ task'[k].pc = "stopped"
              /\ sends' = sends
              /\ commits' = commits]_vars

\* C15: over any number of supervisor passes at most one push loop is live
\* for a key, every live loop has its stop sender in push_thread, and a pass
\* spawns a loop only for a key that push_thread does not hold.
C15_OneLoopPerKey ==
    /\ [](\A k \in DOMAIN task:
            /\ task[k].loops <= 1
            /\ task[k].pc # "stopped" => k \in DOMAIN push_thread)
    /\ [][\A k \in DOMAIN task':
            (k \notin DOMAIN task \/ task'[k].loops > task[k].loops)
              => k \notin DOMAIN push_thread]_vars
\* A supervisor pass found the key of a live loop in push_thread, with a
\* descriptor other than the one the loop was spawned with, and spawned nothing.
C15_Witness ==
    /\ "a" \in DOMAIN task
    /\ task["a"].seen
    /\ task["a"].loops = 1
    /\ "a" \in DOMAIN exclusive_subscribe
    /\ exclusive_subscribe["a"] # task["a"].subscribe

\* C16: a call of create_shard, delete_shard, create_segment or
\* delete_segment submits exactly one client_write, whose StorageData has the
\* kind of the operation and the encoded request; it has no reply while the
\* write is not acknowledged, replies success only if the write succeeded, and
\* replies cancelled with the error string if the write failed.
WriteOps == {"create_shard", "delete_shard", "create_segment", "delete_segment"}
ExpectedKind ==
    [create_shard |-> "JournalCreateShard", delete_shard |-> "JournalDeleteShard",
     create_segment |-> "JournalCreateSegment", delete_segment |-> "JournalDeleteSegment"]
C16_JournalWrites ==
    \A id \in Calls:
      LET call == journal_call[id] IN
      (call.pc # "idle" /\ call.op \in WriteOps) =>
        /\ Len(call.written) = 1
        /\ call.written[1].data_type = ExpectedKind[call.op]
        /\ call.written[1].value = <<"bytes", RequestType(call.op), call.req>>
        /\ call.pc = "client_write" => "reply" \notin DOMAIN call
        /\ call.pc = "done" =>
             IF call.result = "ok"
             THEN call.reply = [status |-> "ok", body |-> "CommonReply"]
             ELSE call.reply = [status |-> "cancelled", body |-> call.result]
\* One call was answered cancelled with its error while a call of another
\* operation was answered success.
C16_Witness ==
    /\ journal_call[1].pc = "done" /\ journal_call[2].pc = "done"
    /\ journal_call[1].op = "delete_segment" /\ journal_call[1].reply.status = "cancelled"
    /\ journal_call[1].reply.body = "timeout"
    /\ journal_call[2].op = "delete_shard" /\ journal_call[2].reply.status = "ok"

\* C17: a CONNECT whose login the plugin answers with false or with an error
\* is answered with DISCONNECT(NotAuthorized), carrying a reason string exactly
\* in the error case, and never with a CONNACK.
C17_BadLoginNotAuthorized ==
    (request.type = "Connect" /\ request.login # "ok")
      => /\ response = Distinct("NotAuthorized", request.login = "error")
         /\ response.type # "ConnAck"
\* A CONNECT whose login failed with an error was answered, while an earlier
\* CONNECT had left a client in the cache.
C17_Witness ==
    /\ request.type = "Connect"
    /\ request.login = "error"
    /\ response = Distinct("NotAuthorized", TRUE)
    /\ connect_id_info # EmptyMap

\* C18: a PUBLISH on a connection that has no client in the cache, or whose
\* client has no session, is answered with DISCONNECT(UnspecifiedError) and
\* changes nothing: no topic is cached or stored, no shard is created, no
\* retained message is saved and no record is appended.
C18_PublishUnknownConnection ==
    [][(request'.type = "Publish" /\ ~Resolved(request'.connect_id))
         => /\ response' = Distinct("UnspecifiedError", TRUE)
            /\ UNCHANGED <<topic_info, topic_store, shard, retain_message>>
            /\ UNCHANGED <<cacheVars, heartbeat, subVars, storeVars>>]_vars
\* A PUBLISH arrived after DISCONNECT, with the topic and a record of the
\* client's earlier PUBLISH still in place, and was refused.
C18_Witness ==
    /\ request.type = "Publish"
    /\ ~Resolved(request.connect_id)
    /\ response = Distinct("UnspecifiedError", TRUE)
    /\ "a" \in DOMAIN since_disconnect
    /\ TopicId("t") \in DOMAIN shard
    /\ Len(shard[TopicId("t")]) = 1

\* C19: a PINGREQ is answered with PINGRESP, and the heartbeat entry of its
\* connection is written, exactly when the connection has a client in the
\* cache and that client has a session; otherwise it is answered with
\* DISCONNECT(UseAnotherServer) and the heartbeat table is left as it was, so
\* a PINGREQ after DISCONNECT does not bring the heartbeat entry back.
C19_PingLiveTuple ==
    [][request'.type = "Ping"
         => LET connect_id == request'.connect_id IN
            IF Resolved(connect_id)
            THEN /\ response' = PingResp
                 /\ connect_id \in DOMAIN heartbeat'
                 /\ \A c \in Conns \ {connect_id}:
                      (c \in DOMAIN heartbeat' <=> c \in DOMAIN heartbeat)
            ELSE /\ response' = Distinct("UseAnotherServer", FALSE)
                 /\ heartbeat' = heartbeat]_vars
\* A PINGREQ on the connection of a client that had disconnected was refused
\* and the connection has no heartbeat entry, while another connection has.
C19_Witness ==
    /\ request.type = "Ping"
    /\ response = Distinct("UseAnotherServer", FALSE)
    /\ since_disconnect # EmptyMap
    /\ request.connect_id \notin DOMAIN heartbeat
    /\ heartbeat # EmptyMap

\* C20: a push loop issues commit_group_offset for a batch only once every
\* record of the batch has been sent or skipped: no commit is issued with an
\* offset that covers a record the loop has neither sent nor skipped.
C20_CommitAfterBatch ==
    \A i \in 1..Len(commits):
      LET client_id == commits[i].group_id[2]
          log == shard[commits[i].topic_id]
      IN \A o \in 1..commits[i].offset:
           \/ Skipped(task[client_id].subscribe, log[o])
           \/ \E j \in 1..Len(sends):
                sends[j].client_id = client_id /\ sends[j].offset = o

\* The running push loop of cl, its client online, skips the record at o:
\* the record fails to decode or the nolocal of the loop's descriptor
\* suppresses it.
LoopSkips(cl, o) ==
    /\ cl \in DOMAIN task
    /\ task[cl].pc # "stopped"
    /\ HasConnectId(cl)
    /\ T \in DOMAIN shard
    /\ o \in DOMAIN shard[T]
    /\ Skipped(task[cl].subscribe, shard[T][o])
\* C21: a record that fails to decode or that nolocal suppresses is skipped
\* without ending the push loop, and the committed offset of the group
\* eventually advances past it (unless the client goes offline), so a batch
\* made only of skipped records is not read again for ever.
C21_SkippedEventuallyCommitted ==
    \A cl \in Subscribers, o \in 1..MaxLog:
      LoopSkips(cl, o) ~> (~HasConnectId(cl) \/ Committed(T, GroupId(cl)) >= o)

\* C22: a CONNECT that fails, because the login is rejected, because the
\* session cannot be persisted (DISCONNECT(AdministrativeAction)) or because
\* the last will cannot be saved (DISCONNECT(UnspecifiedError)), leaves the
\* metadata cache and the heartbeat table as they were: no session, no
\* connection/client mapping and no heartbeat entry is recorded for it.
C22_FailedConnectNoTrace ==
    [][(request'.type = "Connect" /\ response' # ConnAck)
         => /\ response'.type = "Disconnect"
            /\ response'.reason \in
                 IF request'.login # "ok" THEN {"NotAuthorized"}
                 ELSE {"AdministrativeAction", "UnspecifiedError"}
            /\ UNCHANGED <<connect_id_info, client_id_info, session_info, topic_info,
                           heartbeat>>]_vars
\* A CONNECT on a connection without a client failed on storage while another
\* client was connected: the connection has no mapping and no heartbeat
\* entry, the other client has kept its own.
C22_Witness ==
    /\ request.type = "Connect"
    /\ request.login = "ok"
    /\ response = Distinct("UnspecifiedError", TRUE)
    /\ request.connect_id \notin DOMAIN connect_id_info
    /\ request.connect_id \notin DOMAIN heartbeat
    /\ DOMAIN session_info # {}
    /\ DOMAIN session_info # Clients
    /\ heartbeat # EmptyMap

\* C23: when PUBLISH calls of two connections on a topic name that does not
\* exist yet run concurrently, the name is bound to one topic_id that never
\* changes afterwards, and each call whose storage did not fail appends its
\* record to the shard of that topic_id: none is turned away for a shard that
\* is missing and none lands in a shard the name does not map to.
C23_ConcurrentFirstPublish ==
    /\ [](\A c \in DOMAIN publishing:
            /\ publishing[c].result # "no_shard"
            /\ publishing[c].result = "appended"
                 => /\ publishing[c].publish.topic \in DOMAIN topic_info
                    /\ topic_info[publishing[c].publish.topic] = publishing[c].topic_id)
    /\ [][\A n \in DOMAIN topic_info:
            n \in DOMAIN topic_info' /\ topic_info'[n] = topic_info[n]]_vars

\* C24: every PUBLISH a push loop emits is addressed to the connection_id
\* its client is bound to in the cache at the moment of the emission: under
\* any interleaving with DISCONNECT or CONNECT the loop never pushes to a
\* connection_id that has been removed from the cache.
C24_PushToBoundConnection ==
    [][Len(sends') > Len(sends)
         => LET publish == sends'[Len(sends')] IN
            /\ HasConnectId(publish.client_id)
            /\ GetConnectId(publish.client_id) = publish.connection_id
            /\ publish.connection_id \in DOMAIN connect_id_info]_vars

\* C25: once a push loop has ended on its stop signal, a subscription
\* registered under the same key afterwards has a running push loop after the
\* next supervisor pass: the push_thread entry of the stopped loop does not
\* keep the supervisor from spawning a replacement.
C25_ReplacementAfterStop ==
    [][ExclusiveSubPushThread
         => \A k \in DOMAIN exclusive_subscribe:
              (/\ k \in DOMAIN task
               /\ task[k].pc = "stopped"
               /\ exclusive_subscribe[k] # task[k].subscribe)
                => task'[k].pc # "stopped"]_vars

====
